---- MODULE Spec2Model ----
(***************************************************************************)
(* A model of generate_ddl.py: the four constraint extractors, the schema  *)
(* processor (process_schema) and the renderer (write_ddl_to_file).        *)
(*                                                                         *)
(* Strings are sequences of characters.  A fixed literal of an f-string is *)
(* kept as one token (for instance "ALTER TABLE "); the characters of the  *)
(* values that come from the document (names, keys, reference expressions) *)
(* are kept one by one, so that str.split and the underscore-joined        *)
(* constraint names are computed on characters.  A python dict is a        *)
(* function whose DOMAIN is the set of keys it holds.  A python exception  *)
(* is the field exc of a returned record.                                  *)
(***************************************************************************)
EXTENDS Integers, Sequences, FiniteSets, TLC

VARIABLES
    schema_name,     \* the target schema given on the command line
    data,            \* the document yaml.safe_load returned
    pc,              \* position of the run of write_ddl_to_file
    idx,             \* index of the current loop of the run (1-based)
    ddl_statements,  \* process_schema's dict, as the ordered list of its items
    ddl_text,        \* the renderer's text, as the list of its lines
    out_file,        \* the output file: whether it was opened, and its content
    err,             \* the exception that ended the run, and where it was raised
    table_data,      \* the table a direct call of an extractor is given
    called,          \* which extractor was called directly
    result           \* what that call returned or raised

vars == <<schema_name, data, pc, idx, ddl_statements, ddl_text, out_file, err,
          table_data, called, result>>

(***************************************************************************)
(* Bounds of the model.                                                    *)
(***************************************************************************)
MaxTables == 3    \* tables in a document
MaxCols == 2      \* columns of a table given to an extractor
MaxTests == 2     \* tests of a column given to an extractor
MaxToLen == 6     \* characters of a relationship's 'to' value
MaxNameLen == 2   \* characters of a qualifier, table or column name

(***************************************************************************)
(* Python values.                                                          *)
(***************************************************************************)
None == <<"None">>
EmptyDict == [k \in {} |-> <<>>]

\* dict.get(key, default)
Get(d, key, default) == IF key \in DOMAIN d THEN d[key] ELSE default

\* the truth value of a str-or-None
Truthy(v) == v # None /\ v # <<>>

\* a normal return, and a raised exception
Return(v) == [exc |-> "none", val |-> v]
Raise(e) == [exc |-> e, val |-> None]

SeqsUpTo(S, n) == UNION {[1..k -> S] : k \in 0..n}

Min(S) == CHOOSE x \in S : \A y \in S : x <= y

\* str.find, 1-based; 0 when sep does not occur in s
Find(s, sep) ==
    LET at == {p \in 1..(Len(s) - Len(sep) + 1) : SubSeq(s, p, p + Len(sep) - 1) = sep}
    IN  IF at = {} THEN 0 ELSE Min(at)

\* str.split(sep): the pieces of s between the occurrences of sep, left to right
RECURSIVE Split(_, _)
Split(s, sep) ==
    LET p == Find(s, sep)
    IN  IF p = 0 THEN <<s>>
        ELSE <<SubSeq(s, 1, p - 1)>> \o Split(SubSeq(s, p + Len(sep), Len(s)), sep)

\* the two markers of a reference expression: ref(' and ')
OpenMarker == <<"ref(", "'">>
CloseMarker == <<"'", ")">>

\* a bare string test, and a relationship test {relationships: {to:, field:}}
Tag(t) == [tag |-> t]
Rel(to, field) == [relationships |-> [to |-> to, field |-> field]]

\* 'not_null' in tests, for a list of tests: some element is that string
Contains(tests, t) ==
    \E k \in 1..Len(tests) : "tag" \in DOMAIN tests[k] /\ tests[k].tag = t

(***************************************************************************)
(* The extractors.                                                         *)
(***************************************************************************)
PrimaryKeyStatement(schema, table_name, primary_key_str) ==
    <<"ALTER TABLE ">> \o schema \o <<".">> \o table_name
        \o <<" ADD PRIMARY KEY (">> \o primary_key_str \o <<");">>

get_ddl_primary_key(schema, table) ==
    LET table_name == Get(table, "name", None)
        primary_key_str == Get(table, "primary_key", None)
    IN  IF Truthy(table_name) /\ Truthy(primary_key_str)
        THEN Return(PrimaryKeyStatement(schema, table_name, primary_key_str))
        ELSE Return(None)

NonNullStatement(schema, table_name, column_name) ==
    <<"ALTER TABLE ">> \o schema \o <<".">> \o table_name
        \o <<" ALTER COLUMN ">> \o column_name \o <<" SET NOT NULL;">>

\* the loop over the columns, from column k on, with the statements so far
RECURSIVE NonNullLoop(_, _, _, _, _)
NonNullLoop(schema, table_name, columns, k, statements) ==
    IF k > Len(columns) THEN Return(statements)
    ELSE LET column == columns[k]
         IN  IF Contains(Get(column, "tests", <<>>), "not_null")
             THEN IF "name" \in DOMAIN column
                  THEN NonNullLoop(schema, table_name, columns, k + 1,
                           Append(statements,
                                  NonNullStatement(schema, table_name, column.name)))
                  ELSE Raise("KeyError")
             ELSE NonNullLoop(schema, table_name, columns, k + 1, statements)

\* a slip: one statement per not_null test instead of one per column
RECURSIVE NonNullPerTestLoop(_, _, _, _, _, _)
NonNullPerTestLoop(schema, table_name, columns, k, j, statements) ==
    IF k > Len(columns) THEN Return(statements)
    ELSE LET column == columns[k]
             tests == Get(column, "tests", <<>>)
         IN  IF j > Len(tests)
             THEN NonNullPerTestLoop(schema, table_name, columns, k + 1, 1, statements)
             ELSE IF tests[j] = Tag("not_null")
                  THEN IF "name" \in DOMAIN column
                       THEN NonNullPerTestLoop(schema, table_name, columns, k, j + 1,
                                Append(statements,
                                       NonNullStatement(schema, table_name, column.name)))
                       ELSE Raise("KeyError")
                  ELSE NonNullPerTestLoop(schema, table_name, columns, k, j + 1, statements)

get_ddl_non_null_per_test(schema, table) ==
    LET table_name == Get(table, "name", None)
    IN  IF Truthy(table_name)
        THEN NonNullPerTestLoop(schema, table_name, Get(table, "columns", <<>>), 1, 1, <<>>)
        ELSE Return(<<>>)

get_ddl_non_null(schema, table) ==
    LET table_name == Get(table, "name", None)
    IN  IF Truthy(table_name)
        THEN NonNullLoop(schema, table_name, Get(table, "columns", <<>>), 1, <<>>)
        ELSE Return(<<>>)

\* a slip: no underscore between the qualifier and the table
UniqueConstraintName_no_separator(schema, table_name, column_name) ==
    <<"unique", "_">> \o schema \o table_name \o <<"_">> \o column_name

UniqueConstraintName(schema, table_name, column_name) ==
    <<"unique", "_">> \o schema \o <<"_">> \o table_name \o <<"_">> \o column_name

UniqueStatement(schema, table_name, column_name) ==
    <<"ALTER TABLE ">> \o schema \o <<".">> \o table_name \o <<" ADD CONSTRAINT ">>
        \o UniqueConstraintName(schema, table_name, column_name)
        \o <<" UNIQUE (">> \o column_name \o <<");">>

RECURSIVE UniqueLoop(_, _, _, _, _)
UniqueLoop(schema, table_name, columns, k, statements) ==
    IF k > Len(columns) THEN Return(statements)
    ELSE LET column == columns[k]
         IN  IF Contains(Get(column, "tests", <<>>), "unique")
             THEN IF "name" \in DOMAIN column
                  THEN UniqueLoop(schema, table_name, columns, k + 1,
                           Append(statements,
                                  UniqueStatement(schema, table_name, column.name)))
                  ELSE Raise("KeyError")
             ELSE UniqueLoop(schema, table_name, columns, k + 1, statements)

get_ddl_unique(schema, table) ==
    LET table_name == Get(table, "name", None)
    IN  IF Truthy(table_name)
        THEN UniqueLoop(schema, table_name, Get(table, "columns", <<>>), 1, <<>>)
        ELSE Return(<<>>)

\* a slip: the closing marker is not split off
DestinationTable_keeping_close(to) ==
    LET pieces == Split(to, OpenMarker)
    IN  IF Len(pieces) < 2 THEN Raise("IndexError")
        ELSE Return(pieces[2])

\* tests['relationships']['to'].split("ref('")[1].split("')")[0]
DestinationTable(to) ==
    LET pieces == Split(to, OpenMarker)
    IN  IF Len(pieces) < 2 THEN Raise("IndexError")
        ELSE Return(Split(pieces[2], CloseMarker)[1])

ForeignKeyStatement(schema, table_name, column_name, destination_table, destination_column) ==
    <<"ALTER TABLE ">> \o schema \o <<".">> \o table_name \o <<" ADD CONSTRAINT ">>
        \o <<"fk", "_">> \o schema \o <<"_">> \o table_name \o <<"_">> \o column_name
        \o <<"_">> \o destination_table \o <<"_">> \o destination_column
        \o <<" FOREIGN KEY (">> \o column_name \o <<") REFERENCES ">>
        \o schema \o <<".">> \o destination_table
        \o <<" (">> \o destination_column \o <<");">>

\* the nested loops, from test j of column k on, with the statements so far
RECURSIVE ForeignKeyLoop(_, _, _, _, _, _)
ForeignKeyLoop(schema, table_name, columns, k, j, statements) ==
    IF k > Len(columns) THEN Return(statements)
    ELSE LET column == columns[k]
             tests == Get(column, "tests", <<>>)
         IN  IF j > Len(tests)
             THEN ForeignKeyLoop(schema, table_name, columns, k + 1, 1, statements)
             ELSE IF "relationships" \in DOMAIN tests[j]
                  THEN LET destination_table == DestinationTable(tests[j].relationships.to)
                           destination_column == tests[j].relationships.field
                       IN  IF destination_table.exc # "none" THEN destination_table
                           ELSE IF "name" \notin DOMAIN column THEN Raise("KeyError")
                           ELSE ForeignKeyLoop(schema, table_name, columns, k, j + 1,
                                    Append(statements,
                                           ForeignKeyStatement(schema, table_name, column.name,
                                               destination_table.val, destination_column)))
                  ELSE ForeignKeyLoop(schema, table_name, columns, k, j + 1, statements)

\* a slip: the table's name is not looked at before the loop
get_ddl_foreign_keys_unguarded(schema, table) ==
    ForeignKeyLoop(schema, Get(table, "name", None), Get(table, "columns", <<>>), 1, 1, <<>>)

get_ddl_foreign_keys(schema, table) ==
    LET table_name == Get(table, "name", None)
    IN  IF Truthy(table_name)
        THEN ForeignKeyLoop(schema, table_name, Get(table, "columns", <<>>), 1, 1, <<>>)
        ELSE Return(<<>>)

(***************************************************************************)
(* The inputs of the direct calls of the extractors.                       *)
(***************************************************************************)
NameField(names) == {EmptyDict} \cup {[name |-> n] : n \in names}
TestsField(lists) == {EmptyDict} \cup {[tests |-> l] : l \in lists}
ColumnsField(lists) == {EmptyDict} \cup {[columns |-> l] : l \in lists}
PrimaryKeyField(keys) == {EmptyDict} \cup {[primary_key |-> k] : k \in keys}

RefA == OpenMarker \o <<"a">> \o CloseMarker       \* ref('a')
RefB == <<"x">> \o OpenMarker \o <<"b">> \o CloseMarker \o <<"y">>  \* xref('b')y
NotNull == Tag("not_null")
Unique == Tag("unique")
OtherTest == [accepted_values |-> <<"v">>]   \* a dict test that is no relationship

\* tables of up to MaxCols columns, each with one of a few lists of tests
ColumnTestLists ==
    { <<NotNull, NotNull>>, <<Unique>>, <<NotNull, Rel(RefA, <<"i">>)>>,
      <<Rel(RefA, <<"i">>), Rel(RefB, <<"k">>)>> }
ColumnsOfFew ==
    {n @@ t : n \in NameField({<<"a">>, <<"b">>}), t \in TestsField(ColumnTestLists)}
TablesOfColumns ==
    {n @@ c : n \in NameField({<<>>, <<"t">>}),
              c \in ColumnsField(SeqsUpTo(ColumnsOfFew, MaxCols))}

\* tables of one column with up to MaxTests tests
TestUniverse == {NotNull, Unique, OtherTest, Rel(RefA, <<"i">>), Rel(RefB, <<"k">>)}
TablesOfTests ==
    {[name |-> <<"t">>, columns |-> <<n @@ t>>] :
        n \in NameField({<<"a">>}), t \in TestsField(SeqsUpTo(TestUniverse, MaxTests))}

\* tables of one column with one relationship test, over every 'to' value
ToChars == {"ref(", "'", ")", "a"}
ToValues == SeqsUpTo(ToChars, MaxToLen)
TablesOfRefs ==
    {n @@ [columns |-> <<[name |-> <<"c">>, tests |-> <<Rel(to, <<"i">>)>>]>>] :
        n \in NameField({<<"t">>}), to \in ToValues}

\* qualifiers, tables and columns over every non-empty name, one unique column
NameChars == {"a", "_"}
NameStrings == SeqsUpTo(NameChars, MaxNameLen) \ {<<>>}
UniqueTable(t, c) == [name |-> t, columns |-> <<[name |-> c, tests |-> <<Unique>>]>>]

\* tables with and without a name and a primary key, empty strings included
TablesOfKeys ==
    {n @@ k : n \in NameField({<<>>, <<"t">>}), k \in PrimaryKeyField({<<>>, <<"i">>, <<"i", ",", "j">>})}

ExtractInputs ==
    {<<(<<"s">>), t>> : t \in TablesOfColumns \cup TablesOfTests \cup TablesOfRefs \cup TablesOfKeys}
    \cup {<<q, UniqueTable(t, c)>> : q \in NameStrings, t \in NameStrings, c \in NameStrings}

NoErr == [exc |-> "none", at |-> "none"]
NoFile == [opened |-> FALSE, content |-> <<>>]

InitExtract ==
    /\ \E in \in ExtractInputs : schema_name = in[1] /\ table_data = in[2]
    /\ called = "none"
    /\ result = Return(None)
    /\ data = EmptyDict
    /\ pc = "idle"
    /\ idx = 0
    /\ ddl_statements = <<>>
    /\ ddl_text = <<>>
    /\ out_file = NoFile
    /\ err = NoErr

Call_get_ddl_primary_key ==
    /\ pc = "idle" /\ called = "none"
    /\ called' = "primary_key"
    /\ result' = get_ddl_primary_key(schema_name, table_data)
    /\ UNCHANGED <<schema_name, data, pc, idx, ddl_statements, ddl_text, out_file, err, table_data>>

Call_get_ddl_non_null ==
    /\ pc = "idle" /\ called = "none"
    /\ called' = "non_null"
    /\ result' = get_ddl_non_null(schema_name, table_data)
    /\ UNCHANGED <<schema_name, data, pc, idx, ddl_statements, ddl_text, out_file, err, table_data>>

Call_get_ddl_unique ==
    /\ pc = "idle" /\ called = "none"
    /\ called' = "unique"
    /\ result' = get_ddl_unique(schema_name, table_data)
    /\ UNCHANGED <<schema_name, data, pc, idx, ddl_statements, ddl_text, out_file, err, table_data>>

Call_get_ddl_foreign_keys ==
    /\ pc = "idle" /\ called = "none"
    /\ called' = "foreign_keys"
    /\ result' = get_ddl_foreign_keys(schema_name, table_data)
    /\ UNCHANGED <<schema_name, data, pc, idx, ddl_statements, ddl_text, out_file, err, table_data>>

NextExtract ==
    \/ Call_get_ddl_primary_key
    \/ Call_get_ddl_non_null
    \/ Call_get_ddl_unique
    \/ Call_get_ddl_foreign_keys

SpecExtract == InitExtract /\ [][NextExtract]_vars

(***************************************************************************)
(* What the claims about the extractors speak of.                          *)
(***************************************************************************)
TableNamed == "name" \in DOMAIN table_data /\ table_data.name # <<>>
Columns == Get(table_data, "columns", <<>>)
TestsOf(k) == Get(Columns[k], "tests", <<>>)

\* the columns whose tests hold the tag, and the position of one among them
TaggedColumns(t) == {k \in 1..Len(Columns) : Contains(TestsOf(k), t)}
RankIn(S, k) == Cardinality({x \in S : x <= k})

\* the (column, test) pairs that are relationship tests, column first
RelPairs ==
    UNION { {<<k, j>> : j \in {j \in 1..Len(TestsOf(k)) : "relationships" \in DOMAIN TestsOf(k)[j]}} :
            k \in 1..Len(Columns) }
PairBefore(p, q) == p[1] < q[1] \/ (p[1] = q[1] /\ p[2] <= q[2])
PairRank(p) == Cardinality({q \in RelPairs : PairBefore(q, p)})
ToOf(p) == TestsOf(p[1])[p[2]].relationships.to
FieldOf(p) == TestsOf(p[1])[p[2]].relationships.field

\* where a marker first starts at or after position from; 0 when nowhere
FindFrom(s, sep, from) ==
    LET at == {p \in from..(Len(s) - Len(sep) + 1) : SubSeq(s, p, p + Len(sep) - 1) = sep}
    IN  IF at = {} THEN 0 ELSE Min(at)

\* the full marker pair: ref(' and, after it, ')
AfterOpen(to) == Find(to, OpenMarker) + Len(OpenMarker)
WellFormed(to) ==
    Find(to, OpenMarker) # 0 /\ FindFrom(to, CloseMarker, AfterOpen(to)) # 0

\* the text between the first ref(' and the next ')
BetweenMarkers(to) ==
    SubSeq(to, AfterOpen(to), FindFrom(to, CloseMarker, AfterOpen(to)) - 1)

\* the text between the first ref(' and the next ') or ref(', whichever is first
NextMarker(to) ==
    Min({p \in {FindFrom(to, CloseMarker, AfterOpen(to)),
                FindFrom(to, OpenMarker, AfterOpen(to))} : p # 0})
UpToNextMarker(to) == SubSeq(to, AfterOpen(to), NextMarker(to) - 1)

\* the constraint name inside a uniqueness statement
PositionOf(stmt, token) == Min({p \in 1..Len(stmt) : stmt[p] = token})
ConstraintNameOf(stmt) ==
    SubSeq(stmt, PositionOf(stmt, " ADD CONSTRAINT ") + 1, PositionOf(stmt, " UNIQUE (") - 1)
NoUnderscore(s) == \A p \in 1..Len(s) : s[p] # "_"

\* a call of get_ddl_unique that returned the statement of a table's one column
OneUniqueStatement ==
    /\ called = "unique" /\ result.exc = "none"
    /\ Len(Columns) = 1 /\ Len(result.val) = 1
OtherTriples ==
    {tr \in NameStrings \X NameStrings \X NameStrings :
        tr[2] # <<>> /\ tr # <<schema_name, table_data.name, Columns[1].name>>}
NameOfTriple(tr) == ConstraintNameOf(get_ddl_unique(tr[1], UniqueTable(tr[2], tr[3])).val[1])

(***************************************************************************)
(* The claims about the extractors, checked under SpecExtract.             *)
(***************************************************************************)

\* C3, as stated: on a named table, a relationship test whose 'to' value lacks
\* the full marker pair (ref(' and, after it, ')) makes get_ddl_foreign_keys
\* fail; no statement list is returned.
C3_MalformedRefFails ==
    (called = "foreign_keys" /\ TableNamed /\ \E p \in RelPairs : ~WellFormed(ToOf(p)))
        => result.exc # "none"

\* C6, as stated: the constraint name of a uniqueness statement is not the name
\* of any other (qualifier, table, column) triple, underscores or not.
C6_UniqueNameInjective ==
    OneUniqueStatement =>
        \A tr \in OtherTriples : NameOfTriple(tr) # ConstraintNameOf(result.val[1])

\* C6, amended: among the triples whose qualifier and table hold no underscore,
\* the constraint name of a uniqueness statement is the name of no other triple
\* (the column may hold underscores).
C6_UniqueNameInjectiveNoUnderscore ==
    (OneUniqueStatement /\ NoUnderscore(schema_name) /\ NoUnderscore(table_data.name)) =>
        \A tr \in OtherTriples :
            (NoUnderscore(tr[1]) /\ NoUnderscore(tr[2]))
                => NameOfTriple(tr) # ConstraintNameOf(result.val[1])

\* C6's case: a statement whose column name holds an underscore, after a
\* qualifier and a table that hold none.
C6_Witness ==
    /\ OneUniqueStatement
    /\ schema_name = <<"a">> /\ table_data.name = <<"a", "a">>
    /\ Columns[1].name = <<"_", "a">>

\* the statements C7 expects of a call, one per tagged column, in column order
OnePerTaggedColumn(t) ==
    /\ result.exc = "none"
    /\ Len(result.val) = Cardinality(TaggedColumns(t))
    /\ \A k \in TaggedColumns(t) :
          /\ "name" \in DOMAIN Columns[k]
          /\ result.val[RankIn(TaggedColumns(t), k)] =
                IF t = "not_null"
                THEN NonNullStatement(schema_name, table_data.name, Columns[k].name)
                ELSE UniqueStatement(schema_name, table_data.name, Columns[k].name)

\* C7, as stated: on a named table, get_ddl_non_null (get_ddl_unique) returns
\* one statement per column whose tests hold not_null (unique), in column order.
C7_OnePerTaggedColumn ==
    /\ (called = "non_null" /\ TableNamed) => OnePerTaggedColumn("not_null")
    /\ (called = "unique" /\ TableNamed) => OnePerTaggedColumn("unique")

\* C7, amended: the same, on a named table whose columns that hold the tag all
\* have a name.
AllTaggedNamed(t) == \A k \in TaggedColumns(t) : "name" \in DOMAIN Columns[k]
C7_OnePerTaggedNamedColumn ==
    /\ (called = "non_null" /\ TableNamed /\ AllTaggedNamed("not_null"))
          => OnePerTaggedColumn("not_null")
    /\ (called = "unique" /\ TableNamed /\ AllTaggedNamed("unique"))
          => OnePerTaggedColumn("unique")

\* C7's case: two tagged columns, the first with the tag twice, named out of
\* alphabetical order, and two statements returned.
C7_Witness ==
    /\ called = "non_null" /\ TableNamed
    /\ Len(Columns) = 2 /\ TaggedColumns("not_null") = {1, 2}
    /\ Columns[1] = [name |-> <<"b">>, tests |-> <<NotNull, NotNull>>]
    /\ "name" \in DOMAIN Columns[2] /\ Columns[2].name = <<"a">>
    /\ result.exc = "none" /\ Len(result.val) = 2

\* the statements C8 expects of a call: one per relationship pair, column first
\* and test second, to the destination table dest(to) and the column 'field'
OnePerRelPairTo(dest(_)) ==
    /\ result.exc = "none"
    /\ Len(result.val) = Cardinality(RelPairs)
    /\ \A p \in RelPairs :
          /\ "name" \in DOMAIN Columns[p[1]]
          /\ result.val[PairRank(p)] =
                ForeignKeyStatement(schema_name, table_data.name, Columns[p[1]].name,
                                    dest(ToOf(p)), FieldOf(p))

AllRefsWellFormed == \A p \in RelPairs : WellFormed(ToOf(p))
AllRelColumnsNamed == \A p \in RelPairs : "name" \in DOMAIN Columns[p[1]]

\* C8, as stated: on a named table whose 'to' values are all well-formed,
\* get_ddl_foreign_keys returns one statement per relationship pair, in column
\* then test order, to the table named between the first ref(' and the next ').
C8_OnePerRelationship ==
    (called = "foreign_keys" /\ TableNamed /\ AllRefsWellFormed)
        => OnePerRelPairTo(BetweenMarkers)

\* C8, amended: the same, on a table whose columns that carry a relationship
\* test all have a name, and with the destination table being the text between
\* the first ref(' and the next ') or ref(', whichever comes first.
C8_OnePerRelationshipOfNamedColumn ==
    (called = "foreign_keys" /\ TableNamed /\ AllRefsWellFormed /\ AllRelColumnsNamed)
        => OnePerRelPairTo(UpToNextMarker)

\* C8's case: two columns with relationship tests, a bare string test among
\* them, three statements returned.
C8_Witness ==
    /\ called = "foreign_keys" /\ TableNamed /\ AllRefsWellFormed
    /\ Len(Columns) = 2
    /\ Columns[1] = [name |-> <<"b">>, tests |-> <<Rel(RefA, <<"i">>), Rel(RefB, <<"k">>)>>]
    /\ Columns[2] = [name |-> <<"a">>, tests |-> <<NotNull, Rel(RefA, <<"i">>)>>]
    /\ result.exc = "none" /\ Len(result.val) = 3

\* C9: on a table without a name, or with an empty one, the three list
\* extractors return the empty list and get_ddl_primary_key returns None,
\* whatever the columns hold; none raises.
C9_NamelessTableYieldsNothing ==
    (called # "none" /\ ~TableNamed) =>
        /\ result.exc = "none"
        /\ IF called = "primary_key" THEN result.val = None ELSE result.val = <<>>

\* C9's case: get_ddl_foreign_keys called on a table without a name whose
\* column carries a malformed reference expression.
C9_Witness ==
    /\ called = "foreign_keys" /\ "name" \notin DOMAIN table_data
    /\ \E p \in RelPairs : Find(ToOf(p), OpenMarker) = 0
    /\ result = Return(<<>>)

(***************************************************************************)
(* The run of write_ddl_to_file: process_schema, the renderer, the write.  *)
(***************************************************************************)

\* d[key] = val on an insertion-ordered dict: an existing key keeps its place
DictSet(items, key, val) ==
    IF \E n \in 1..Len(items) : items[n].key = key
    THEN [n \in 1..Len(items) |-> IF items[n].key = key THEN [key |-> key, val |-> val]
                                                         ELSE items[n]]
    ELSE Append(items, [key |-> key, val |-> val])

\* d[key]
DictGet(items, key) == items[CHOOSE n \in 1..Len(items) : items[n].key = key].val

\* d[key][slot] = val
SlotSet(items, key, slot, val) ==
    DictSet(items, key, (slot :> val) @@ DictGet(items, key))

\* a slip: ddl_statements.setdefault(table['name'], {}), which keeps an entry
NewEntry_keeping_old(items, key) ==
    IF \E n \in 1..Len(items) : items[n].key = key THEN items
    ELSE DictSet(items, key, EmptyDict)

\* ddl_statements[table['name']] = {}
NewEntry(items, key) == DictSet(items, key, EmptyDict)

\* the exception of line 149: its message reads table['name']
MissingNameError(table) ==
    IF "name" \in DOMAIN table THEN "RuntimeError" ELSE "KeyError"

\* one iteration of process_schema's loop: the dict after it, and what it raised
ProcessOne(items, schema, table) ==
    IF "name" \notin DOMAIN table
    THEN [statements |-> items, err |-> [exc |-> MissingNameError(table), at |-> "name"]]
    ELSE
    LET fresh == NewEntry(items, table.name)
        primary_key_ddl == get_ddl_primary_key(schema, table)
        with_pk == IF Truthy(primary_key_ddl.val)
                   THEN SlotSet(fresh, table.name, "primary_key", primary_key_ddl.val)
                   ELSE fresh
        non_null == get_ddl_non_null(schema, table)
        with_nn == SlotSet(with_pk, table.name, "non_null", non_null.val)
        uniqueness == get_ddl_unique(schema, table)
        with_uq == SlotSet(with_nn, table.name, "uniqueness", uniqueness.val)
        foreign_keys == get_ddl_foreign_keys(schema, table)
        with_fk == SlotSet(with_uq, table.name, "foreign_keys", foreign_keys.val)
    IN  IF non_null.exc # "none"
        THEN [statements |-> with_pk, err |-> [exc |-> non_null.exc, at |-> "non_null"]]
        ELSE IF uniqueness.exc # "none"
        THEN [statements |-> with_nn, err |-> [exc |-> uniqueness.exc, at |-> "uniqueness"]]
        ELSE IF foreign_keys.exc # "none"
        THEN [statements |-> with_uq, err |-> [exc |-> foreign_keys.exc, at |-> "foreign_keys"]]
        ELSE [statements |-> with_fk, err |-> NoErr]

Banner1 == <<"-- Adding primary_key, non_null, uniqueness ddl statements ">>
Banner2 == <<"-- Adding foreign key ddl statements ">>
Header(key) == <<"-- Processing table ">> \o key
BlankLine == <<>>

\* a slip: the foreign keys are written with the table's other statements
Pass1Lines_with_foreign_keys(key, val) ==
    <<Header(key), BlankLine>>
        \o (IF Truthy(val.primary_key) THEN <<val.primary_key>> ELSE <<>>)
        \o val.non_null \o val.uniqueness \o val.foreign_keys \o <<BlankLine, BlankLine>>

\* the lines pass 1 adds for one table, once val['primary_key'] was read
Pass1Lines(key, val) ==
    <<Header(key), BlankLine>>
        \o (IF Truthy(val.primary_key) THEN <<val.primary_key>> ELSE <<>>)
        \o val.non_null \o val.uniqueness \o <<BlankLine, BlankLine>>

\* the lines pass 2 adds for one table
Pass2Lines(key, val) ==
    IF Len(val.foreign_keys) = 0 THEN <<>>
    ELSE <<Header(key), BlankLine>> \o val.foreign_keys \o <<BlankLine, BlankLine>>

(***************************************************************************)
(* The documents of the runs.                                              *)
(***************************************************************************)
FullColumn == [name |-> <<"a">>, tests |-> <<NotNull, Unique, Rel(RefA, <<"i">>)>>]
BadRefColumn == [name |-> <<"a">>, tests |-> <<Rel(<<"a">>, <<"i">>)>>]
NamelessColumn == [tests |-> <<NotNull>>]

\* the tables of the documents: without a name; with a name alone; with a
\* primary key; with columns that extract, with or without a primary key; with
\* a column that makes an extractor fail
DocumentTables ==
    { [columns |-> <<NamelessColumn>>],
      [name |-> <<"t">>],
      [name |-> <<"t">>, primary_key |-> <<"i">>],
      [name |-> <<"t">>, primary_key |-> <<"i">>, columns |-> <<FullColumn>>],
      [name |-> <<"t">>, columns |-> <<FullColumn>>],
      [name |-> <<"t">>, primary_key |-> <<"i">>, columns |-> <<BadRefColumn>>],
      [name |-> <<"t">>, primary_key |-> <<"i">>, columns |-> <<NamelessColumn>>],
      [name |-> <<"u">>],
      [name |-> <<"u">>, primary_key |-> <<"i">>],
      [name |-> <<"u">>, primary_key |-> <<"i">>, columns |-> <<FullColumn>>] }

Documents ==
    {[version |-> <<"2">>]} \cup {[models |-> m] : m \in SeqsUpTo(DocumentTables, MaxTables)}

Init ==
    /\ schema_name = <<"s">>
    /\ data \in Documents
    /\ pc = "start"
    /\ idx = 0
    /\ ddl_statements = <<>>
    /\ ddl_text = <<>>
    /\ out_file = NoFile
    /\ err = NoErr
    /\ table_data = EmptyDict
    /\ called = "none"
    /\ result = Return(None)

\* lines 142-146: the document is loaded and its 'models' key looked for
LoadDocument ==
    /\ pc = "start"
    /\ IF "models" \notin DOMAIN data
       THEN pc' = "error" /\ err' = [exc |-> "RuntimeError", at |-> "models"] /\ idx' = idx
       ELSE pc' = "process" /\ err' = err /\ idx' = 1
    /\ UNCHANGED <<schema_name, data, ddl_statements, ddl_text, out_file,
                   table_data, called, result>>

\* lines 147-160: one table of the document
ProcessTable ==
    /\ pc = "process" /\ idx <= Len(data.models)
    /\ LET done == ProcessOne(ddl_statements, schema_name, data.models[idx])
       IN  /\ ddl_statements' = done.statements
           /\ err' = done.err
           /\ pc' = IF done.err = NoErr THEN "process" ELSE "error"
           /\ idx' = IF done.err = NoErr THEN idx + 1 ELSE idx
    /\ UNCHANGED <<schema_name, data, ddl_text, out_file, table_data, called, result>>

\* a slip: the output file is opened before the text is rendered
StartRender_opening_file ==
    /\ pc = "process" /\ idx > Len(data.models)
    /\ ddl_text' = <<Banner1, BlankLine>>
    /\ out_file' = [opened |-> TRUE, content |-> <<>>]
    /\ pc' = "pass1" /\ idx' = 1
    /\ UNCHANGED <<schema_name, data, ddl_statements, err, table_data, called, result>>

\* lines 161, 177-179: process_schema returns, the text starts with its banner
StartRender ==
    /\ pc = "process" /\ idx > Len(data.models)
    /\ ddl_text' = <<Banner1, BlankLine>>
    /\ pc' = "pass1" /\ idx' = 1
    /\ UNCHANGED <<schema_name, data, ddl_statements, out_file, err, table_data, called, result>>

\* lines 180-188: one table of pass 1; its header is in the text before
\* val['primary_key'] is read
RenderPass1 ==
    /\ pc = "pass1" /\ idx <= Len(ddl_statements)
    /\ LET key == ddl_statements[idx].key
           val == ddl_statements[idx].val
       IN  IF "primary_key" \notin DOMAIN val
           THEN /\ ddl_text' = ddl_text \o <<Header(key), BlankLine>>
                /\ pc' = "error" /\ err' = [exc |-> "KeyError", at |-> "render"]
                /\ idx' = idx
           ELSE /\ ddl_text' = ddl_text \o Pass1Lines(key, val)
                /\ pc' = pc /\ err' = err
                /\ idx' = idx + 1
    /\ UNCHANGED <<schema_name, data, ddl_statements, out_file, table_data, called, result>>

\* line 189: the banner of pass 2
StartPass2 ==
    /\ pc = "pass1" /\ idx > Len(ddl_statements)
    /\ ddl_text' = ddl_text \o <<Banner2, BlankLine>>
    /\ pc' = "pass2" /\ idx' = 1
    /\ UNCHANGED <<schema_name, data, ddl_statements, out_file, err, table_data, called, result>>

\* lines 190-196: one table of pass 2
RenderPass2 ==
    /\ pc = "pass2" /\ idx <= Len(ddl_statements)
    /\ ddl_text' = ddl_text \o Pass2Lines(ddl_statements[idx].key, ddl_statements[idx].val)
    /\ idx' = idx + 1
    /\ UNCHANGED <<schema_name, data, pc, ddl_statements, out_file, err, table_data, called, result>>

\* lines 198-199: the output file is opened and the text written
WriteFile ==
    /\ pc = "pass2" /\ idx > Len(ddl_statements)
    /\ out_file' = [opened |-> TRUE, content |-> ddl_text]
    /\ pc' = "done"
    /\ UNCHANGED <<schema_name, data, idx, ddl_statements, ddl_text, err, table_data, called, result>>

Next ==
    \/ LoadDocument
    \/ ProcessTable
    \/ StartRender
    \/ RenderPass1
    \/ StartPass2
    \/ RenderPass2
    \/ WriteFile

Spec == Init /\ [][Next]_vars

(***************************************************************************)
(* The claims about the run, checked under Spec.                           *)
(***************************************************************************)
Models == Get(data, "models", <<>>)

\* process_schema has returned its dict
Returned ==
    \/ pc \in {"pass1", "pass2", "done"}
    \/ pc = "process" /\ idx > Len(Models)
    \/ pc = "error" /\ err.at = "render"

\* the last table of the document with this name
LastTableNamed(name) ==
    Models[CHOOSE k \in 1..Len(Models) :
              /\ "name" \in DOMAIN Models[k] /\ Models[k].name = name
              /\ \A j \in (k + 1)..Len(Models) :
                    ~("name" \in DOMAIN Models[j] /\ Models[j].name = name)]

\* a table with a name and neither primary_key nor columns
BareTable(table) ==
    "name" \in DOMAIN table /\ "primary_key" \notin DOMAIN table /\ "columns" \notin DOMAIN table

LinesAt(text, line) == {n \in 1..Len(text) : text[n] = line}
Banner2At(text) == IF LinesAt(text, Banner2) = {} THEN Len(text) + 1 ELSE Min(LinesAt(text, Banner2))

\* C1, as stated: rendering never fails on a table that has a name and neither
\* primary_key nor columns; once the run is done such a table has its header in
\* pass 1 (before the foreign-key banner) and none in pass 2.
C1_BareTableRenders ==
    /\ (pc = "error" /\ err.at = "render")
          => ~BareTable(LastTableNamed(ddl_statements[idx].key))
    /\ pc = "done" =>
          \A k \in 1..Len(Models) :
              BareTable(Models[k]) /\ BareTable(LastTableNamed(Models[k].name)) =>
                  /\ \E n \in LinesAt(out_file.content, Header(Models[k].name)) :
                        n < Banner2At(out_file.content)
                  /\ \A n \in LinesAt(out_file.content, Header(Models[k].name)) :
                        n < Banner2At(out_file.content)

\* C2, as stated: when a table of the document has no name, process_schema
\* does not return, and the failure raised for the missing name is the
\* RuntimeError.
C2_MissingNameIsRuntimeError ==
    /\ (\E k \in 1..Len(Models) : "name" \notin DOMAIN Models[k]) => ~Returned
    /\ (pc = "error" /\ err.at = "name") => err.exc = "RuntimeError"

\* the kinds of lines of the text
IsStatement(line) == Len(line) > 0 /\ line[1] = "ALTER TABLE "
IsForeignKey(line) == IsStatement(line) /\ \E n \in 1..Len(line) : line[n] = " FOREIGN KEY ("
IsSimple(line) == IsStatement(line) /\ ~IsForeignKey(line)

\* C4: in the text, at every moment of the rendering and in the file, every
\* primary-key, not-null and uniqueness statement is before the foreign-key
\* banner and every foreign-key statement is after it.
TwoPhases(text) ==
    \A n \in 1..Len(text) :
        /\ IsSimple(text[n]) => n < Banner2At(text)
        /\ IsForeignKey(text[n]) => Banner2At(text) < n
C4_SimpleBeforeForeignKeys == TwoPhases(ddl_text) /\ TwoPhases(out_file.content)

\* C4's case: a written file with the statements of two tables in each pass.
C4_Witness ==
    /\ pc = "done" /\ Len(ddl_statements) = 2
    /\ \A k \in 1..2 :
          /\ Len(ddl_statements[k].val.foreign_keys) > 0
          /\ Len(ddl_statements[k].val.uniqueness) > 0
          /\ \E n \in 1..Len(out_file.content) :
                out_file.content[n] = ddl_statements[k].val.foreign_keys[1]
          /\ \E n \in 1..Len(out_file.content) :
                out_file.content[n] = ddl_statements[k].val.uniqueness[1]

\* C5: the output file is opened only by a run that has processed and
\* rendered every table; a run that ended in an error has not opened it.
C5_NoOutputOnError ==
    /\ pc = "error" => out_file = NoFile
    /\ out_file # NoFile => (pc = "done" /\ out_file.content = ddl_text)

\* C5's case: a run that failed while rendering, after a table was rendered.
C5_Witness ==
    /\ pc = "error" /\ err.at = "render" /\ idx = 2
    /\ \E n \in 1..Len(ddl_text) : IsSimple(ddl_text[n])
    /\ out_file = NoFile

\* what C10 expects process_schema to return
NamesInOrder == [k \in 1..Len(Models) |-> Models[k].name]
FirstOccurrences == {k \in 1..Len(Models) : \A j \in 1..(k - 1) : NamesInOrder[j] # NamesInOrder[k]}
ConstraintSetOf(table) ==
    (IF Truthy(get_ddl_primary_key(schema_name, table).val)
     THEN [primary_key |-> get_ddl_primary_key(schema_name, table).val] ELSE EmptyDict)
    @@ [non_null |-> get_ddl_non_null(schema_name, table).val,
        uniqueness |-> get_ddl_unique(schema_name, table).val,
        foreign_keys |-> get_ddl_foreign_keys(schema_name, table).val]

\* C10: the dict process_schema returns has one entry per table name, in the
\* order of the names' first occurrences, and the entry of a name holds the
\* slots of the last table of that name and nothing else.
C10_LastTableWins ==
    Returned =>
        /\ Len(ddl_statements) = Cardinality(FirstOccurrences)
        /\ \A k \in FirstOccurrences :
              LET item == ddl_statements[RankIn(FirstOccurrences, k)]
              IN  /\ item.key = NamesInOrder[k]
                  /\ item.val = ConstraintSetOf(LastTableNamed(NamesInOrder[k]))

\* C10's case: three tables, the first and the last of one name, the first
\* with a primary key and the last without: two entries, the first of them
\* under that name and without a primary-key statement.
C10_Witness ==
    /\ Returned /\ Len(Models) = 3
    /\ Models[1].name = Models[3].name /\ Models[1].name # Models[2].name
    /\ "primary_key" \in DOMAIN Models[1] /\ "primary_key" \notin DOMAIN Models[3]
    /\ Len(ddl_statements) = 2
    /\ ddl_statements[1].key = Models[1].name
    /\ "primary_key" \notin DOMAIN ddl_statements[1].val

====
